---------------------------- MODULE Spec2Model ----------------------------
(***************************************************************************)
(* gangway: cmd/gangway/main.go.                                           *)
(*                                                                         *)
(* The process is modelled as three kinds of concurrent activity:          *)
(*   - the main control flow (func main, one action per statement group),  *)
(*   - the serve goroutine started at line 118 (ListenAndServe[TLS] and    *)
(*     the log.Fatal that wraps it),                                       *)
(*   - one execution unit per accepted request (Accept / Finish).          *)
(* The environment delivers SIGINT/SIGTERM and issues browser requests.    *)
(* net/http, os/signal, crypto/x509 and context are modelled by their      *)
(* documented behaviour.  The handlers, loginRequired, NewConfig and the    *)
(* session store live in other files of package main; they are modelled    *)
(* from the design document (sections 4.3 - 4.5).                          *)
(***************************************************************************)
EXTENDS Integers, Sequences, FiniteSets, TLC

(* ------------------------------ bounds -------------------------------- *)
\* PEM blocks in the custom CA file
MaxPEMBlocks == 2
\* state nonces the session manager can issue
MaxNonce == 2
\* requests simultaneously in flight
MaxInflight == 1

(* ------------------------- program constants -------------------------- *)
\* main.go:113  ReadTimeout: 10 * time.Second
ReadTimeout == 10
\* main.go:114  WriteTimeout: 10 * time.Second
WriteTimeout == 10
\* main.go:129  make(chan os.Signal, 1)
SignalChanCap == 1

\* a nil pointer; every pointer-valued variable holds NULL or a record
NULL == [nil |-> TRUE]
NoNonce == 0

Browsers == {"b1"}
Signals == {"SIGINT", "SIGTERM"}

\* certificates of the system pool, and what a PEM block of the CA file can be:
\* a certificate, or a block AppendCertsFromPEM skips (another type, unparsable)
SystemRoots == {"sysRoot"}
CertBlocks == {"ca1"}
PEMBlocks == CertBlocks \cup {"PRIVATE KEY"}

RECURSIVE SeqsUpTo(_, _)
SeqsUpTo(S, n) ==
  IF n = 0 THEN {<<>>}
  ELSE LET shorter == SeqsUpTo(S, n - 1)
       IN  shorter \cup {Append(s, x) : s \in {t \in shorter : Len(t) = n - 1}, x \in S}

PEMFiles == SeqsUpTo(PEMBlocks, MaxPEMBlocks)

VARIABLES
  env,          \* what the process finds at startup (config, system pool, CA file)
  exitCause,    \* "none" while the process runs, else why it ended
  mainPc,       \* position of func main
  cfg,          \* var cfg *Config
  oauth2Cfg,    \* var oauth2Cfg *oauth2.Config
  rootCAs,      \* local rootCAs (line 72)
  certs,        \* local certs (line 79): the bytes read from TrustedCAPath
  warned,       \* "No certs appended, using system certs only" was logged
  httpClient,   \* var httpClient *http.Client
  sessionStore, \* var sessionStore *sessions.CookieStore (initialised or not)
  routes,       \* http.DefaultServeMux: path -> [handler, wrap]
  httpServer,   \* local httpServer (line 111)
  listener,     \* the server's listener: "none", "open", "closed"
  inShutdown,   \* the server's inShutdown flag
  servePc,      \* position of the serve goroutine
  serveErr,     \* what ListenAndServe[TLS] returned
  notified,     \* signal.Notify has registered signalChan
  signalChan,   \* contents of signalChan
  shutdownCtx,  \* the context handed to Shutdown
  cookie,       \* per browser: the session cookie [nonce, auth]
  nextNonce,    \* next state nonce NewLoginState will issue
  inflight,     \* requests accepted and not yet finished
  resp          \* the last response written

vars == <<env, exitCause, mainPc, cfg, oauth2Cfg, rootCAs, certs, warned, httpClient,
          sessionStore, routes, httpServer, listener, inShutdown, servePc,
          serveErr, notified, signalChan, shutdownCtx, cookie, nextNonce,
          inflight, resp>>

startupVars == <<cfg, oauth2Cfg, rootCAs, certs, warned, httpClient, sessionStore,
                 routes, httpServer>>
serverVars == <<listener, inShutdown, servePc, serveErr>>
signalVars == <<notified, signalChan>>
requestVars == <<cookie, nextNonce, inflight, resp>>

Running == exitCause = "none"

(* ----------------------------- environment ---------------------------- *)
\* What the process finds when it starts: whether the config file loads and what
\* it holds, whether x509.SystemCertPool() has a pool to return, whether the file
\* TrustedCAPath names can be read.  A config that fails to load has no fields;
\* a CA file is there to be read only when TrustedCAPath names one.
Envs ==
  {[cfgErr |-> TRUE, TrustedCAPath |-> "", ServeTLS |-> FALSE, sysPool |-> s,
    caReadable |-> FALSE] : s \in BOOLEAN}
  \cup
  {[cfgErr |-> FALSE, TrustedCAPath |-> "", ServeTLS |-> t, sysPool |-> s,
    caReadable |-> FALSE] : t \in BOOLEAN, s \in BOOLEAN}
  \cup
  {[cfgErr |-> FALSE, TrustedCAPath |-> "ca.pem", ServeTLS |-> t, sysPool |-> s,
    caReadable |-> r] : t \in BOOLEAN, s \in BOOLEAN, r \in BOOLEAN}

\* NewConfig(file): the loaded configuration, or an error
NewConfig ==
  IF env.cfgErr THEN [cfg |-> NULL, err |-> TRUE]
  ELSE [cfg |-> [TrustedCAPath |-> env.TrustedCAPath, ServeTLS |-> env.ServeTLS,
                 ClientID |-> "client-id", TokenURL |-> "https://idp/token"],
        err |-> FALSE]

Init ==
  /\ env \in Envs
  /\ exitCause = "none"
  /\ mainPc = "NewConfig"
  /\ cfg = NULL
  /\ oauth2Cfg = NULL
  /\ rootCAs = NULL
  /\ certs = NULL
  /\ warned = FALSE
  /\ httpClient = NULL
  /\ sessionStore = FALSE
  /\ routes = [p \in {} |-> NULL]
  /\ httpServer = NULL
  /\ listener = "none"
  /\ inShutdown = FALSE
  /\ servePc = "none"
  /\ serveErr = "nil"
  /\ notified = FALSE
  /\ signalChan = <<>>
  /\ shutdownCtx = NULL
  /\ cookie = [b \in Browsers |-> [nonce |-> NoNonce, auth |-> FALSE]]
  /\ nextNonce = 1
  /\ inflight = {}
  /\ resp = NULL

(* --------------------------- main: startup ---------------------------- *)
\* lines 54-59: cfg, err = NewConfig(*cfgFile); on error log and os.Exit(1)
MainNewConfig ==
  /\ Running /\ mainPc = "NewConfig"
  /\ cfg' = NewConfig.cfg
  /\ IF NewConfig.err
     THEN /\ exitCause' = "os.Exit(1): config"
          /\ mainPc' = "exited"
     ELSE /\ mainPc' = "oauth2Cfg"
          /\ exitCause' = exitCause
  /\ UNCHANGED <<env, oauth2Cfg, rootCAs, certs, warned, httpClient, sessionStore,
                 routes, httpServer, serverVars, signalVars, shutdownCtx, requestVars>>

\* lines 61-70: oauth2Cfg = &oauth2.Config{...} from cfg
MainOAuth2Cfg ==
  /\ Running /\ mainPc = "oauth2Cfg"
  /\ oauth2Cfg' = [ClientID |-> cfg.ClientID, TokenURL |-> cfg.TokenURL]
  /\ mainPc' = "SystemCertPool"
  /\ UNCHANGED <<env, exitCause, cfg, rootCAs, certs, warned, httpClient, sessionStore,
                 routes, httpServer, serverVars, signalVars, shutdownCtx, requestVars>>

\* lines 72-75: rootCAs, _ := x509.SystemCertPool(); nil is replaced by NewCertPool()
SystemCertPool == IF env.sysPool THEN [certs |-> SystemRoots] ELSE NULL

NewCertPool == [certs |-> {}]

MainSystemCertPool_IgnoresSystemPool ==
  /\ Running /\ mainPc = "SystemCertPool"
  /\ rootCAs' = NewCertPool
  /\ mainPc' = "TrustedCAPath"
  /\ UNCHANGED <<env, exitCause, cfg, oauth2Cfg, certs, warned, httpClient, sessionStore,
                 routes, httpServer, serverVars, signalVars, shutdownCtx, requestVars>>

MainSystemCertPool ==
  /\ Running /\ mainPc = "SystemCertPool"
  /\ rootCAs' = IF SystemCertPool = NULL THEN NewCertPool ELSE SystemCertPool
  /\ mainPc' = "TrustedCAPath"
  /\ UNCHANGED <<env, exitCause, cfg, oauth2Cfg, certs, warned, httpClient, sessionStore,
                 routes, httpServer, serverVars, signalVars, shutdownCtx, requestVars>>

\* line 77, TrustedCAPath == "": the block is skipped, no file is read
MainSkipCA ==
  /\ Running /\ mainPc = "TrustedCAPath"
  /\ cfg.TrustedCAPath = ""
  /\ mainPc' = "httpClient"
  /\ UNCHANGED <<env, exitCause, startupVars, serverVars, signalVars, shutdownCtx,
                 requestVars>>

\* x509.(*CertPool).AppendCertsFromPEM: decode block after block; a block that is
\* not a CERTIFICATE (or does not parse) is skipped; ok reports whether any
\* certificate was parsed.  Returns the pool and ok.
RECURSIVE AppendCertsFromPEM(_, _)
AppendCertsFromPEM(pool, pemCerts) ==
  IF pemCerts = <<>> THEN [pool |-> pool, ok |-> FALSE]
  ELSE LET block == Head(pemCerts)
           isCert == block \in CertBlocks
           added == IF isCert THEN [certs |-> pool.certs \cup {block}] ELSE pool
           rest == AppendCertsFromPEM(added, Tail(pemCerts))
       IN  [pool |-> rest.pool, ok |-> isCert \/ rest.ok]

\* lines 77-82 with the read error only logged; startup goes on without the file
MainReadFile_ContinuesOnError ==
  /\ Running /\ mainPc = "TrustedCAPath"
  /\ cfg.TrustedCAPath # ""
  /\ IF ~env.caReadable
     THEN /\ mainPc' = "httpClient"
          /\ UNCHANGED <<exitCause, certs>>
     ELSE /\ \E file \in PEMFiles : certs' = [pem |-> file]
          /\ mainPc' = "AppendCertsFromPEM"
          /\ exitCause' = exitCause
  /\ UNCHANGED <<env, cfg, oauth2Cfg, rootCAs, warned, httpClient, sessionStore,
                 routes, httpServer, serverVars, signalVars, shutdownCtx, requestVars>>

\* lines 77-82, TrustedCAPath != "": certs, err := ioutil.ReadFile(path); on error
\* log.Fatalf (exit 1)
MainReadFile ==
  /\ Running /\ mainPc = "TrustedCAPath"
  /\ cfg.TrustedCAPath # ""
  /\ IF ~env.caReadable
     THEN /\ exitCause' = "log.Fatalf: ReadFile"
          /\ mainPc' = "exited"
          /\ certs' = certs
     ELSE /\ \E file \in PEMFiles : certs' = [pem |-> file]
          /\ mainPc' = "AppendCertsFromPEM"
          /\ exitCause' = exitCause
  /\ UNCHANGED <<env, cfg, oauth2Cfg, rootCAs, warned, httpClient, sessionStore,
                 routes, httpServer, serverVars, signalVars, shutdownCtx, requestVars>>

\* lines 84-87 with log.Fatal in place of log.Println when nothing was appended
MainAppendCerts_FatalOnNoCerts ==
  /\ Running /\ mainPc = "AppendCertsFromPEM"
  /\ LET r == AppendCertsFromPEM(rootCAs, certs.pem)
     IN  /\ rootCAs' = r.pool
         /\ warned' = ~r.ok
         /\ mainPc' = IF r.ok THEN "httpClient" ELSE "exited"
         /\ exitCause' = IF r.ok THEN exitCause ELSE "log.Fatalf: ReadFile"
  /\ UNCHANGED <<env, cfg, oauth2Cfg, certs, httpClient, sessionStore, routes,
                 httpServer, serverVars, signalVars, shutdownCtx, requestVars>>

\* lines 84-87: ok := rootCAs.AppendCertsFromPEM(certs); when !ok the warning
\* "No certs appended, using system certs only" is logged and startup goes on
MainAppendCerts ==
  /\ Running /\ mainPc = "AppendCertsFromPEM"
  /\ LET r == AppendCertsFromPEM(rootCAs, certs.pem)
     IN  /\ rootCAs' = r.pool
         /\ warned' = ~r.ok
         /\ mainPc' = "httpClient"
  /\ UNCHANGED <<env, exitCause, cfg, oauth2Cfg, certs, httpClient, sessionStore,
                 routes, httpServer, serverVars, signalVars, shutdownCtx, requestVars>>

\* lines 90-95: httpClient = &http.Client{Transport{TLSClientConfig{RootCAs: rootCAs}}}
\* (certs, local to the block of lines 77-88, is out of scope from here on)
MainHTTPClient ==
  /\ Running /\ mainPc = "httpClient"
  /\ httpClient' = [RootCAs |-> rootCAs]
  /\ certs' = NULL
  /\ mainPc' = "initSessionStore"
  /\ UNCHANGED <<env, exitCause, cfg, oauth2Cfg, rootCAs, warned, sessionStore,
                 routes, httpServer, serverVars, signalVars, shutdownCtx, requestVars>>

\* line 97 left out: startup goes on without the session store
MainInitSessionStore_Skipped ==
  /\ Running /\ mainPc = "initSessionStore"
  /\ sessionStore' = sessionStore
  /\ mainPc' = "routes"
  /\ UNCHANGED <<env, exitCause, cfg, oauth2Cfg, rootCAs, certs, warned, httpClient,
                 routes, httpServer, serverVars, signalVars, shutdownCtx, requestVars>>

\* line 97: initSessionStore()
MainInitSessionStore ==
  /\ Running /\ mainPc = "initSessionStore"
  /\ sessionStore' = TRUE
  /\ mainPc' = "routes"
  /\ UNCHANGED <<env, exitCause, cfg, oauth2Cfg, rootCAs, certs, warned, httpClient,
                 routes, httpServer, serverVars, signalVars, shutdownCtx, requestVars>>

\* lines 99-107 with /commandline registered without the loginRequired chain
RouteTable_CommandlineUngated ==
  [p \in {"/", "/login", "/callback", "/logout", "/commandline"} |->
     CASE p = "/"            -> [handler |-> "homeHandler", wrap |-> "httpLogger"]
       [] p = "/login"       -> [handler |-> "loginHandler", wrap |-> "httpLogger"]
       [] p = "/callback"    -> [handler |-> "callbackHandler", wrap |-> "httpLogger"]
       [] p = "/logout"      -> [handler |-> "logoutHandler", wrap |-> "loginRequired"]
       [] p = "/commandline" -> [handler |-> "commandlineHandler", wrap |-> "httpLogger"]]

\* lines 99-107 with line 106 registering commandlineHandler for /logout too
RouteTable_LogoutServesCommandline ==
  [p \in {"/", "/login", "/callback", "/logout", "/commandline"} |->
     CASE p = "/"            -> [handler |-> "homeHandler", wrap |-> "httpLogger"]
       [] p = "/login"       -> [handler |-> "loginHandler", wrap |-> "httpLogger"]
       [] p = "/callback"    -> [handler |-> "callbackHandler", wrap |-> "httpLogger"]
       [] p = "/logout"      -> [handler |-> "commandlineHandler", wrap |-> "loginRequired"]
       [] p = "/commandline" -> [handler |-> "commandlineHandler", wrap |-> "loginRequired"]]

\* lines 99-107 with /login registered through the loginRequired chain
RouteTable_LoginGated ==
  [p \in {"/", "/login", "/callback", "/logout", "/commandline"} |->
     CASE p = "/"            -> [handler |-> "homeHandler", wrap |-> "httpLogger"]
       [] p = "/login"       -> [handler |-> "loginHandler", wrap |-> "loginRequired"]
       [] p = "/callback"    -> [handler |-> "callbackHandler", wrap |-> "httpLogger"]
       [] p = "/logout"      -> [handler |-> "logoutHandler", wrap |-> "loginRequired"]
       [] p = "/commandline" -> [handler |-> "commandlineHandler", wrap |-> "loginRequired"]]

\* lines 99-107: the five registrations.  /, /login and /callback are wrapped by
\* httpLogger; /logout and /commandline by the loginRequired chain
RouteTable ==
  [p \in {"/", "/login", "/callback", "/logout", "/commandline"} |->
     CASE p = "/"            -> [handler |-> "homeHandler", wrap |-> "httpLogger"]
       [] p = "/login"       -> [handler |-> "loginHandler", wrap |-> "httpLogger"]
       [] p = "/callback"    -> [handler |-> "callbackHandler", wrap |-> "httpLogger"]
       [] p = "/logout"      -> [handler |-> "logoutHandler", wrap |-> "loginRequired"]
       [] p = "/commandline" -> [handler |-> "commandlineHandler", wrap |-> "loginRequired"]]

MainRoutes ==
  /\ Running /\ mainPc = "routes"
  /\ routes' = RouteTable
  /\ mainPc' = "httpServer"
  /\ UNCHANGED <<env, exitCause, cfg, oauth2Cfg, rootCAs, certs, warned, httpClient,
                 sessionStore, httpServer, serverVars, signalVars, shutdownCtx,
                 requestVars>>

\* lines 109-115: httpServer := &http.Server{Addr, ReadTimeout, WriteTimeout}
MainHTTPServer ==
  /\ Running /\ mainPc = "httpServer"
  /\ httpServer' = [Addr |-> "host:port", ReadTimeout |-> ReadTimeout,
                    WriteTimeout |-> WriteTimeout]
  /\ mainPc' = "go"
  /\ UNCHANGED <<env, exitCause, cfg, oauth2Cfg, rootCAs, certs, warned, httpClient,
                 sessionStore, routes, serverVars, signalVars, shutdownCtx,
                 requestVars>>

\* line 118: go func() { ... }()
MainGo ==
  /\ Running /\ mainPc = "go"
  /\ servePc' = "ListenAndServe"
  /\ mainPc' = "make(chan)"
  /\ UNCHANGED <<env, exitCause, startupVars, listener, inShutdown, serveErr,
                 signalVars, shutdownCtx, requestVars>>

(* ---------------------- main: signal wait, shutdown ------------------- *)
\* line 129: signalChan := make(chan os.Signal, 1)
MainMakeChan ==
  /\ Running /\ mainPc = "make(chan)"
  /\ signalChan' = <<>>
  /\ mainPc' = "Notify"
  /\ UNCHANGED <<env, exitCause, startupVars, serverVars, notified, shutdownCtx,
                 requestVars>>

\* line 130: signal.Notify(signalChan, syscall.SIGINT, syscall.SIGTERM)
MainNotify ==
  /\ Running /\ mainPc = "Notify"
  /\ notified' = TRUE
  /\ mainPc' = "<-signalChan"
  /\ UNCHANGED <<env, exitCause, startupVars, serverVars, signalChan, shutdownCtx,
                 requestVars>>

\* lines 131-133: <-signalChan blocks until a signal is queued; then the log line
MainReceive ==
  /\ Running /\ mainPc = "<-signalChan"
  /\ signalChan # <<>>
  /\ signalChan' = Tail(signalChan)
  /\ mainPc' = "Shutdown"
  /\ UNCHANGED <<env, exitCause, startupVars, serverVars, notified, shutdownCtx,
                 requestVars>>

\* context.Background(): never cancelled, no deadline
Background == [kind |-> "Background", deadline |-> FALSE]

\* whether ctx.Done() can ever fire
CtxCanExpire(ctx) == ctx # NULL /\ ctx.deadline

\* line 135 preceded by a cleanup that drops the shared HTTP client
MainShutdown_DropsClient ==
  /\ Running /\ mainPc = "Shutdown"
  /\ shutdownCtx' = Background
  /\ inShutdown' = TRUE
  /\ listener' = IF listener = "open" THEN "closed" ELSE listener
  /\ httpClient' = NULL
  /\ mainPc' = "Shutdown: wait"
  /\ UNCHANGED <<env, exitCause, cfg, oauth2Cfg, rootCAs, certs, warned,
                 sessionStore, routes, httpServer, servePc, serveErr, signalVars,
                 requestVars>>

\* line 135 without the listener being closed
MainShutdown_KeepsListening ==
  /\ Running /\ mainPc = "Shutdown"
  /\ shutdownCtx' = Background
  /\ inShutdown' = TRUE
  /\ listener' = listener
  /\ mainPc' = "Shutdown: wait"
  /\ UNCHANGED <<env, exitCause, startupVars, servePc, serveErr, signalVars,
                 requestVars>>

\* line 135, httpServer.Shutdown(context.Background()), its first part: the server
\* is marked as shutting down and every open listener is closed
MainShutdown ==
  /\ Running /\ mainPc = "Shutdown"
  /\ shutdownCtx' = Background
  /\ inShutdown' = TRUE
  /\ listener' = IF listener = "open" THEN "closed" ELSE listener
  /\ mainPc' = "Shutdown: wait"
  /\ UNCHANGED <<env, exitCause, startupVars, servePc, serveErr, signalVars,
                 requestVars>>

\* line 135, second part: Shutdown waits until no connection is active, or until
\* its context is done, and returns
MainShutdownReturn ==
  /\ Running /\ mainPc = "Shutdown: wait"
  /\ inflight = {} \/ CtxCanExpire(shutdownCtx)
  /\ mainPc' = "return"
  /\ UNCHANGED <<env, exitCause, startupVars, serverVars, signalVars, shutdownCtx,
                 requestVars>>

\* line 137: main returns, the process exits with status 0
MainReturn ==
  /\ Running /\ mainPc = "return"
  /\ exitCause' = "main returned"
  /\ mainPc' = "exited"
  /\ UNCHANGED <<env, startupVars, serverVars, signalVars, shutdownCtx, requestVars>>

(* --------------------------- serve goroutine -------------------------- *)
\* what ListenAndServe / ListenAndServeTLS does with the outcome of binding
\* (and, for TLS, of loading the key pair); once Shutdown has been called it
\* returns ErrServerClosed at once
Listen(outcome) ==
  /\ servePc' = IF ~inShutdown /\ outcome = "ok" THEN "Serve" ELSE "log.Fatal"
  /\ serveErr' = IF inShutdown THEN "ErrServerClosed"
                 ELSE IF outcome = "ok" THEN serveErr ELSE outcome
  /\ listener' = IF inShutdown THEN listener
                 ELSE CASE outcome = "ok" -> "open"
                        [] outcome = "bind: address already in use" -> listener
                        [] outcome = "tls: failed to load key pair" -> "closed"
  /\ inShutdown' = inShutdown

\* line 122: httpServer.ListenAndServeTLS(cfg.CertFile, cfg.KeyFile)
ServeListenAndServeTLS ==
  /\ Running /\ servePc = "ListenAndServe"
  /\ cfg.ServeTLS = TRUE
  /\ \E outcome \in {"ok", "bind: address already in use", "tls: failed to load key pair"} :
       Listen(outcome)
  /\ UNCHANGED <<env, exitCause, mainPc, startupVars, signalVars, shutdownCtx,
                 requestVars>>

\* line 124: httpServer.ListenAndServe()
ServeListenAndServe ==
  /\ Running /\ servePc = "ListenAndServe"
  /\ cfg.ServeTLS # TRUE
  /\ \E outcome \in {"ok", "bind: address already in use"} :
       Listen(outcome)
  /\ UNCHANGED <<env, exitCause, mainPc, startupVars, signalVars, shutdownCtx,
                 requestVars>>

\* the accept loop ends when Shutdown is called: Serve returns ErrServerClosed
ServeReturn ==
  /\ Running /\ servePc = "Serve"
  /\ inShutdown
  /\ serveErr' = "ErrServerClosed"
  /\ servePc' = "log.Fatal"
  /\ UNCHANGED <<env, exitCause, mainPc, startupVars, listener, inShutdown,
                 signalVars, shutdownCtx, requestVars>>

\* lines 122/124 with the error only logged: the goroutine ends, the process lives
ServeFatal_LogsOnly ==
  /\ Running /\ servePc = "log.Fatal"
  /\ servePc' = "done"
  /\ UNCHANGED <<env, exitCause, mainPc, startupVars, listener, inShutdown, serveErr,
                 signalVars, shutdownCtx, requestVars>>

\* lines 122/124: log.Fatal(err) logs the returned error and calls os.Exit(1)
ServeFatal ==
  /\ Running /\ servePc = "log.Fatal"
  /\ exitCause' = "log.Fatal: serve"
  /\ servePc' = "exited"
  /\ UNCHANGED <<env, mainPc, startupVars, listener, inShutdown, serveErr,
                 signalVars, shutdownCtx, requestVars>>

(* ------------------------------- signals ------------------------------ *)
\* The environment sends SIGINT or SIGTERM.  Before signal.Notify the default
\* disposition ends the process; after it the signal is queued on signalChan
\* (a send that would block is dropped).
Signal ==
  /\ Running
  /\ \E sig \in Signals :
       IF ~notified
       THEN /\ exitCause' = "killed by signal"
            /\ signalChan' = signalChan
       ELSE /\ Len(signalChan) < SignalChanCap
            /\ signalChan' = Append(signalChan, sig)
            /\ exitCause' = exitCause
  /\ UNCHANGED <<env, mainPc, startupVars, serverVars, notified, shutdownCtx,
                 requestVars>>

\* exit status of the process
ExitStatus ==
  CASE exitCause = "main returned"        -> "0"
    [] exitCause = "os.Exit(1): config"   -> "1"
    [] exitCause = "log.Fatalf: ReadFile" -> "1"
    [] exitCause = "log.Fatal: serve"     -> "1"
    [] exitCause = "killed by signal"     -> "signal"
    [] OTHER                              -> "running"

(* ------------------- session manager, handlers (spec) ----------------- *)
Paths == {"/", "/login", "/callback", "/logout", "/commandline"}

\* A request: the browser (its cookie jar), the path, and for /callback the code
\* and state query parameters ("" and NoNonce: parameter missing)
Requests ==
  {[b |-> b, path |-> p, code |-> "", state |-> NoNonce] :
      b \in Browsers, p \in Paths}
  \cup
  {[b |-> b, path |-> "/callback", code |-> c, state |-> n] :
      b \in Browsers, c \in {"", "code"}, n \in 0..MaxNonce}

Anonymous == [nonce |-> NoNonce, auth |-> FALSE]

\* Session Manager: IsAuthenticated(request)
IsAuthenticated(c) == c.auth

\* ValidateAndConsumeState that accepts any state when no nonce is recorded
ValidState_AcceptsWhenNoneRecorded(c, supplied) ==
  c.nonce = NoNonce \/ supplied = c.nonce

\* Session Manager: ValidateAndConsumeState(request, suppliedState)
ValidState(c, supplied) == c.nonce # NoNonce /\ supplied = c.nonce

\* Home: landing page, no side effects
homeHandler(c) ==
  [cookie |-> c, status |-> 200, exchange |-> "none", location |-> ""]

\* Login: NewLoginState records a fresh nonce in the session, 302 to the IdP
loginHandler(c, nonce) ==
  [cookie |-> [c EXCEPT !.nonce = nonce], status |-> 302, exchange |-> "none",
   location |-> "AuthorizeURL"]

\* Callback that validates the state but leaves the nonce recorded
callbackHandler_KeepsNonce(c, r, idp) ==
  IF r.code = "" \/ r.state = NoNonce
  THEN [cookie |-> c, status |-> 400, exchange |-> "none", location |-> ""]
  ELSE IF ~ValidState(c, r.state)
  THEN [cookie |-> c, status |-> 403, exchange |-> "none", location |-> ""]
  ELSE IF idp = "ok"
  THEN [cookie |-> [c EXCEPT !.auth = TRUE], status |-> 302,
        exchange |-> idp, location |-> "/commandline"]
  ELSE [cookie |-> c, status |-> 502, exchange |-> idp, location |-> ""]

\* Callback without the check for missing parameters
callbackHandler_SkipsParamCheck(c, r, idp) ==
  IF ~ValidState(c, r.state)
  THEN [cookie |-> c, status |-> 403, exchange |-> "none", location |-> ""]
  ELSE IF idp = "ok"
  THEN [cookie |-> [nonce |-> NoNonce, auth |-> TRUE], status |-> 302,
        exchange |-> idp, location |-> "/commandline"]
  ELSE [cookie |-> [c EXCEPT !.nonce = NoNonce], status |-> 502, exchange |-> idp,
        location |-> ""]

\* Callback with a session established whatever the IdP answered
callbackHandler_IgnoresExchangeError(c, r, idp) ==
  IF r.code = "" \/ r.state = NoNonce
  THEN [cookie |-> c, status |-> 400, exchange |-> "none", location |-> ""]
  ELSE IF ~ValidState(c, r.state)
  THEN [cookie |-> c, status |-> 403, exchange |-> "none", location |-> ""]
  ELSE [cookie |-> [nonce |-> NoNonce, auth |-> TRUE], status |-> 302,
        exchange |-> idp, location |-> "/commandline"]

\* Callback: 400 when code or state is missing; 403 when the state is not the
\* recorded nonce; else the nonce is consumed and the code exchanged: on failure
\* an error response and no session, on success the session is established
callbackHandler(c, r, idp) ==
  IF r.code = "" \/ r.state = NoNonce
  THEN [cookie |-> c, status |-> 400, exchange |-> "none", location |-> ""]
  ELSE IF ~ValidState(c, r.state)
  THEN [cookie |-> c, status |-> 403, exchange |-> "none", location |-> ""]
  ELSE IF idp = "ok"
  THEN [cookie |-> [nonce |-> NoNonce, auth |-> TRUE], status |-> 302,
        exchange |-> idp, location |-> "/commandline"]
  ELSE [cookie |-> [c EXCEPT !.nonce = NoNonce], status |-> 502, exchange |-> idp,
        location |-> ""]

\* Logout: Destroy clears the session and the cookie, 302 to /
logoutHandler(c) ==
  [cookie |-> Anonymous, status |-> 302, exchange |-> "none", location |-> "/"]

\* Commandline: serves the credential artifact from the session
commandlineHandler(c) ==
  [cookie |-> c, status |-> 200, exchange |-> "none", location |-> ""]

\* the handler a route entry names, applied to the request
Invoke(handler, c, r, nonce, idp) ==
  CASE handler = "homeHandler"        -> homeHandler(c)
    [] handler = "loginHandler"       -> loginHandler(c, nonce)
    [] handler = "callbackHandler"    -> callbackHandler(c, r, idp)
    [] handler = "logoutHandler"      -> logoutHandler(c)
    [] handler = "commandlineHandler" -> commandlineHandler(c)

\* Access Middleware: the wrapped handler runs only when IsAuthenticated;
\* otherwise 302 to /login and the handler is not invoked
loginRequired(handler, c, r, nonce, idp) ==
  IF IsAuthenticated(c)
  THEN Invoke(handler, c, r, nonce, idp) @@ [invoked |-> handler, logged |-> FALSE]
  ELSE [cookie |-> c, status |-> 302, exchange |-> "none", invoked |-> "none",
        logged |-> FALSE, location |-> "/login"]

\* lines 42-47: httpLogger runs fn and, deferred, logs method, URL, remote address
httpLogger(handler, c, r, nonce, idp) ==
  Invoke(handler, c, r, nonce, idp) @@ [invoked |-> handler, logged |-> TRUE]

\* What the mux does with a request: the entry registered for its path, wrapped
\* as registered
ServeHTTP(c, r, nonce, idp) ==
  LET entry == routes[r.path]
  IN  IF entry.wrap = "loginRequired"
      THEN loginRequired(entry.handler, c, r, nonce, idp)
      ELSE httpLogger(entry.handler, c, r, nonce, idp)

(* ------------------------------ requests ------------------------------ *)
PendingLogins == Cardinality({q \in inflight : q.path = "/login"})

\* The accept loop takes a connection and starts handling its request on an
\* execution unit of its own.  Only an open listener accepts.
Accept ==
  /\ Running /\ servePc = "Serve"
  /\ listener = "open"
  /\ Cardinality(inflight) < MaxInflight
  /\ \E r \in Requests \ inflight :
       /\ r.path \in DOMAIN routes
       /\ r.path = "/login" => nextNonce + PendingLogins <= MaxNonce
       /\ inflight' = inflight \cup {r}
  /\ UNCHANGED <<env, exitCause, mainPc, startupVars, serverVars, signalVars,
                 shutdownCtx, cookie, nextNonce, resp>>

\* A request in flight runs its handler to the end and the response is written.
\* idp is the identity provider's answer, should the handler exchange a code.
Finish ==
  /\ Running
  /\ \E r \in inflight, idp \in {"ok", "fail"} :
       LET out == ServeHTTP(cookie[r.b], r, nextNonce, idp)
       IN  /\ cookie' = [cookie EXCEPT ![r.b] = out.cookie]
           /\ nextNonce' = IF out.invoked = "loginHandler" THEN nextNonce + 1
                           ELSE nextNonce
           /\ resp' = [path |-> r.path, status |-> out.status,
                       location |-> out.location, invoked |-> out.invoked,
                       logged |-> out.logged, exchange |-> out.exchange]
           /\ inflight' = inflight \ {r}
  /\ UNCHANGED <<env, exitCause, mainPc, startupVars, serverVars, signalVars,
                 shutdownCtx>>

(* ---------------------------- specification --------------------------- *)
MainNext ==
  \/ MainNewConfig \/ MainOAuth2Cfg \/ MainSystemCertPool \/ MainSkipCA
  \/ MainReadFile \/ MainAppendCerts \/ MainHTTPClient \/ MainInitSessionStore \/ MainRoutes
  \/ MainHTTPServer \/ MainGo \/ MainMakeChan \/ MainNotify \/ MainReceive
  \/ MainShutdown \/ MainShutdownReturn \/ MainReturn

ServeNext ==
  \/ ServeListenAndServeTLS \/ ServeListenAndServe \/ ServeReturn \/ ServeFatal

Next == MainNext \/ ServeNext \/ Signal \/ Accept \/ Finish

Spec == Init /\ [][Next]_vars

\* The Go scheduler runs every runnable goroutine: main and the serve goroutine
\* each take their next step when they have one.  Nothing obliges the environment
\* to send a signal or a request, nor a handler to finish.
FairSpec == Spec /\ WF_vars(MainNext) /\ WF_vars(ServeNext)

(* ------------------------------- claims ------------------------------- *)
\* main has taken a signal off signalChan (line 131 has returned)
SignalReceived ==
  \/ mainPc \in {"Shutdown", "Shutdown: wait", "return"}
  \/ exitCause = "main returned"

\* a signal has reached the process
SignalDelivered ==
  \/ exitCause = "killed by signal"
  \/ signalChan # <<>>
  \/ SignalReceived

\* C1 (as claimed): graceful drain.  When the process has exited after main
\* received SIGINT/SIGTERM, no request is left unfinished: a request in flight at
\* the signal is never cut off by the exit.
C1_GracefulDrain == (~Running /\ SignalReceived) => inflight = {}

\* C2: once the signal has been received and Shutdown has begun (the server is
\* marked as shutting down), no step starts handling a new request: the set of
\* requests in flight only shrinks.
C2_NoNewRequestsAfterShutdown ==
  [][inShutdown => inflight' \subseteq inflight]_vars

\* C2 witness: Shutdown has begun with a request still in flight and the listener
\* closed, so further connections are refused while that request runs
C2_Witness ==
  /\ Running /\ SignalReceived /\ inShutdown
  /\ listener = "closed" /\ servePc = "Serve" /\ inflight # {}

\* C3 (as claimed): the wait inside Shutdown is bounded: whenever main waits in
\* Shutdown, the call can return, also when a request in flight never finishes
\* (its context expires).
C3_ShutdownWaitBounded ==
  (Running /\ mainPc = "Shutdown: wait") => ENABLED MainShutdownReturn

\* C4 (as claimed): there is no window after the server has started serving in
\* which a SIGINT/SIGTERM ends the process by its default disposition, without
\* going through signalChan and Shutdown.
C4_SignalAlwaysGraceful ==
  ~(exitCause = "killed by signal" /\ servePc = "Serve" /\ listener = "open")

BindFailed == serveErr = "bind: address already in use"

\* C5: when the listener failed to bind, (a) no request was ever accepted or
\* answered and nothing listens, (b) the process does not stay alive waiting for
\* a signal: while it still runs, the goroutine's log.Fatal is its pending step,
\* whatever main is doing, and (c) with no signal delivered the exit is the fatal
\* one, status 1.
C5_BindFailureFatal ==
  BindFailed =>
    /\ inflight = {} /\ resp = NULL /\ listener # "open"
    /\ Running => (servePc = "log.Fatal" /\ ENABLED ServeFatal)
    /\ (~Running /\ ~SignalDelivered) =>
         (exitCause = "log.Fatal: serve" /\ ExitStatus = "1")

\* C5 witness: the bind failed while main was blocked on signalChan, and the
\* process has exited with status 1
C5_Witness ==
  /\ BindFailed /\ ~Running /\ ExitStatus = "1"
  /\ mainPc = "<-signalChan" /\ signalChan = <<>>

\* a startup error has happened: the config did not load, or the configured
\* TrustedCAPath could not be read
StartupError ==
  \/ env.cfgErr /\ mainPc # "NewConfig"
  \/ /\ ~env.cfgErr /\ env.TrustedCAPath # "" /\ ~env.caReadable
     /\ mainPc \notin {"NewConfig", "oauth2Cfg", "SystemCertPool", "TrustedCAPath"}

\* C6: after a startup error the process has exited with a non-zero status, the
\* session store is not initialised, no route is registered, the server and the
\* serve goroutine do not exist, and no request was accepted or answered.
C6_StartupErrorFatal ==
  StartupError =>
    /\ ~Running /\ ExitStatus = "1"
    /\ sessionStore = FALSE
    /\ DOMAIN routes = {}
    /\ httpServer = NULL /\ servePc = "none" /\ listener = "none"
    /\ inflight = {} /\ resp = NULL

\* C6 witness: the CA file named by the config could not be read and the process
\* has exited
C6_Witness ==
  /\ ~env.cfgErr /\ env.TrustedCAPath # "" /\ ~env.caReadable
  /\ exitCause = "log.Fatalf: ReadFile"

\* the certificates among the PEM blocks of a file
CertsIn(pem) == {pem[i] : i \in 1..Len(pem)} \cap CertBlocks

\* C7: the step that appends a readable CA file holding no certificate logs the
\* warning, leaves the trust pool as it was, does not end the process and hands
\* over to the next startup step.
C7_ZeroCertsNotFatal ==
  [][(mainPc = "AppendCertsFromPEM" /\ mainPc' # mainPc /\ CertsIn(certs.pem) = {}) =>
       /\ warned'
       /\ rootCAs' = rootCAs
       /\ exitCause' = "none"
       /\ mainPc' = "httpClient"]_vars

\* C7 witness: the warning was logged, the pool is the system pool, and startup
\* went on to register the routes and serve
C7_Witness ==
  /\ warned /\ Running /\ env.sysPool
  /\ httpClient # NULL /\ httpClient.RootCAs.certs = SystemRoots
  /\ DOMAIN routes = Paths /\ servePc = "Serve" /\ listener = "open"

\* the pool the process starts from: the system pool, empty when unavailable
BaseCerts == IF env.sysPool THEN SystemRoots ELSE {}

\* C8: the step that builds the HTTP client gives it the pool: system pool (or
\* empty pool) united with the certificates of the bytes read from the CA file;
\* with TrustedCAPath empty no file was read and the pool is the system/empty
\* pool.
C8_TrustPoolIsUnion ==
  [][(mainPc = "httpClient" /\ mainPc' # mainPc) =>
       /\ cfg.TrustedCAPath = "" => certs = NULL
       /\ httpClient'.RootCAs.certs =
            BaseCerts \cup (IF cfg.TrustedCAPath = "" THEN {} ELSE CertsIn(certs.pem))]_vars

\* C8 witness: a client whose pool holds the system roots and the custom CA
C8_Witness ==
  /\ httpClient # NULL
  /\ httpClient.RootCAs.certs = SystemRoots \cup CertBlocks

\* C9: a request to /logout or /commandline that finishes has its handler
\* invoked only if the browser's session was authenticated; otherwise the
\* response is a 302 to /login, no handler ran and the session is untouched.
C9_AccessGating ==
  [][\A r \in inflight \ inflight' :
       r.path \in {"/logout", "/commandline"} =>
         /\ resp'.invoked # "none" => IsAuthenticated(cookie[r.b])
         /\ ~IsAuthenticated(cookie[r.b]) =>
              /\ resp'.status = 302 /\ resp'.location = "/login"
              /\ resp'.invoked = "none"
              /\ cookie' = cookie]_vars

\* C9 witness: an anonymous browser asked for /commandline and was redirected
C9_Witness ==
  /\ resp # NULL
  /\ resp.path = "/commandline" /\ resp.status = 302 /\ resp.location = "/login"
  /\ resp.invoked = "none"
  /\ \A b \in Browsers : ~cookie[b].auth

\* C10: a browser's session goes from not authenticated to authenticated only in
\* a step that finishes a /callback of that browser carrying a code and the
\* nonce recorded for it, and in which the identity provider accepted the code.
\* (Every session starts anonymous and Logout leaves it anonymous, so a browser
\* is authenticated only by such a callback since its last Logout; a callback
\* whose exchange fails creates no session.)
C10_SessionOnlyAfterExchange ==
  [][\A b \in Browsers :
       (~cookie[b].auth /\ cookie'[b].auth) =>
         \E r \in inflight \ inflight' :
           /\ r.b = b /\ r.path = "/callback"
           /\ r.code # "" /\ r.state # NoNonce /\ r.state = cookie[b].nonce
           /\ resp'.exchange = "ok"]_vars

\* C10 witness: a callback passed state validation, its exchange succeeded, and
\* the browser is authenticated
C10_Witness ==
  /\ resp # NULL
  /\ resp.path = "/callback" /\ resp.exchange = "ok" /\ resp.status = 302
  /\ \E b \in Browsers : cookie[b].auth

\* C11: state nonce single use.  (a) The nonce a Login records is none of the
\* nonces issued before it, and every recorded nonce is an issued one.  (b) A
\* Callback that passes state validation (it goes on to the exchange) presented
\* the recorded nonce, and leaves no nonce recorded: the nonce is consumed.
\* (c) A Callback presenting a state that is not the recorded nonce, a consumed
\* nonce included, is answered 403 and the session is left as it was.
C11_NonceSingleUse ==
  [][\A r \in inflight \ inflight' :
       /\ cookie'[r.b].nonce < nextNonce'
       /\ r.path = "/login" =>
            /\ cookie'[r.b].nonce \notin 0..(nextNonce - 1)
            /\ \A b \in Browsers \ {r.b} : cookie'[r.b].nonce # cookie'[b].nonce
       /\ (r.path = "/callback" /\ resp'.exchange # "none") =>
            /\ r.state # NoNonce /\ r.state = cookie[r.b].nonce
            /\ cookie'[r.b].nonce = NoNonce
       /\ (r.path = "/callback" /\ r.code # "" /\ r.state # NoNonce
             /\ r.state # cookie[r.b].nonce) =>
            /\ resp'.status = 403 /\ resp'.exchange = "none"
            /\ cookie' = cookie]_vars

\* C11 witness: a nonce was issued and consumed by a callback (nothing is recorded
\* any more), and a callback has just been refused with 403
C11_Witness ==
  /\ resp # NULL /\ resp.path = "/callback" /\ resp.status = 403
  /\ nextNonce > 1
  /\ \E b \in Browsers : cookie[b].nonce = NoNonce /\ cookie[b].auth

C13_MissingParams400 ==
  [][\A r \in inflight \ inflight' :
       (r.path = "/callback" /\ (r.code = "" \/ r.state = NoNonce)) =>
         /\ resp'.status = 400
         /\ resp'.exchange = "none"
         /\ cookie' = cookie
         /\ nextNonce' = nextNonce]_vars

\* C13 witness: after a Login recorded a nonce, a Callback without parameters was
\* answered 400 and the pending nonce is still recorded
C13_Witness ==
  /\ resp # NULL /\ resp.path = "/callback" /\ resp.status = 400
  /\ \E b \in Browsers : cookie[b].nonce # NoNonce /\ ~cookie[b].auth

\* C14: session lifecycle.  A Callback whose exchange succeeded leaves the
\* browser authenticated; an authenticated browser stays so until its Logout
\* (only a finished /logout ends a session, and no other step touches a cookie);
\* /commandline answers 200 from commandlineHandler to an authenticated browser
\* and 302 to /login otherwise; a Logout of an authenticated browser leaves it
\* not authenticated.
C14_SessionLifecycle ==
  [][/\ inflight \ inflight' = {} => cookie' = cookie
     /\ \A r \in inflight \ inflight' :
          /\ (r.path = "/callback" /\ resp'.exchange = "ok") =>
               IsAuthenticated(cookie'[r.b])
          /\ (IsAuthenticated(cookie[r.b]) /\ ~IsAuthenticated(cookie'[r.b])) =>
               r.path = "/logout"
          /\ r.path = "/commandline" =>
               IF IsAuthenticated(cookie[r.b])
               THEN /\ resp'.status = 200 /\ resp'.invoked = "commandlineHandler"
                    /\ cookie' = cookie
               ELSE /\ resp'.status = 302 /\ resp'.location = "/login"
                    /\ resp'.invoked = "none"
          /\ (r.path = "/logout" /\ IsAuthenticated(cookie[r.b])) =>
               /\ ~IsAuthenticated(cookie'[r.b])
               /\ resp'.status = 302 /\ resp'.location = "/"]_vars

\* C14 witness: a browser that had a session has logged out
C14_Witness ==
  /\ resp # NULL /\ resp.path = "/logout" /\ resp.invoked = "logoutHandler"
  /\ \A b \in Browsers : ~cookie[b].auth

\* C15: from the start of the serve goroutine on, no step (request, signal,
\* shutdown, exit) changes the trust pool, the HTTP client built on it, or the
\* OAuth2 descriptor.
C15_TrustAndOAuthImmutable ==
  [][servePc # "none" =>
       /\ rootCAs' = rootCAs
       /\ httpClient' = httpClient
       /\ oauth2Cfg' = oauth2Cfg]_vars

\* C15 witness: requests were answered, a signal was received and Shutdown has
\* begun, and client and descriptor are those built at startup
C15_Witness ==
  /\ resp # NULL /\ inShutdown /\ SignalReceived
  /\ httpClient = [RootCAs |-> rootCAs]
  /\ rootCAs.certs = SystemRoots \cup CertBlocks
  /\ oauth2Cfg = [ClientID |-> cfg.ClientID, TokenURL |-> cfg.TokenURL]

\* C16 (as claimed): every request handled on any of the five routes, the
\* session-gated /logout and /commandline included, has produced the log record
\* with method, URL and remote address once its handler has finished.
C16_EveryRequestLogged == resp # NULL => resp.logged

\* C17: startup ordering.  Whenever the serve goroutine exists, a listener was
\* opened, or a request is or was being handled, the OAuth2 descriptor, the
\* trusted HTTP client and the session store are initialised and all five routes
\* are registered.
C17_StartupOrdering ==
  (servePc # "none" \/ listener # "none" \/ inflight # {} \/ resp # NULL) =>
    /\ oauth2Cfg # NULL
    /\ httpClient # NULL /\ httpClient.RootCAs # NULL
    /\ sessionStore = TRUE
    /\ DOMAIN routes = Paths
    /\ httpServer # NULL

\* C17 witness: the listener accepts and a request is being handled
C17_Witness ==
  /\ Running /\ servePc = "Serve" /\ listener = "open" /\ inflight # {}

\* C18 (as claimed): the serve goroutine's fatal exit is taken only on a genuine
\* bind or serve failure, never because Shutdown was called: a process ended by
\* that log.Fatal did not get ErrServerClosed from ListenAndServe.
C18_FatalOnlyOnGenuineFailure ==
  exitCause = "log.Fatal: serve" => serveErr # "ErrServerClosed"

\* C19: the access middleware gates exactly /logout and /commandline.  A request
\* to /, /login or /callback has its handler invoked whatever the session state;
\* a request to /logout or /commandline without a session does not.  So the way
\* from Anonymous to Authenticated needs no session: a Login records a nonce,
\* and a Callback presenting it with a code the identity provider accepts
\* authenticates the browser.
C19_GateOnlyProtectedRoutes ==
  [][\A r \in inflight \ inflight' :
       /\ r.path = "/" => resp'.invoked = "homeHandler"
       /\ r.path = "/login" =>
            /\ resp'.invoked = "loginHandler"
            /\ cookie'[r.b].nonce # NoNonce
       /\ r.path = "/callback" =>
            /\ resp'.invoked = "callbackHandler"
            /\ (r.code # "" /\ r.state # NoNonce /\ r.state = cookie[r.b].nonce
                  /\ resp'.exchange = "ok") => cookie'[r.b].auth
       /\ r.path \in {"/logout", "/commandline"} =>
            (resp'.invoked = "none" <=> ~IsAuthenticated(cookie[r.b]))]_vars

\* C19 witness: after a single Login, made without a session, the Callback was
\* handled and the browser holds a session
C19_Witness ==
  /\ resp # NULL /\ resp.path = "/callback" /\ resp.invoked = "callbackHandler"
  /\ resp.logged /\ nextNonce = 2
  /\ \E b \in Browsers : cookie[b].auth

====
